---- MODULE Spec2Model ----
(***************************************************************************)
(* A model of the CBOR decoder `parse` (src/unnamed/part_000).             *)
(*                                                                         *)
(* The decoder is a pure function from a byte slice to (item, remaining    *)
(* slice).  Every function of the source is an operator of the same name,  *)
(* computed as the source computes it.  A call has one of three outcomes:  *)
(*   [t |-> "ok", v |-> value, rest |-> remaining stream]   it returns     *)
(*   [t |-> "throw", err |-> the thrown value]              it throws      *)
(*   [t |-> "loop"]                                         it never ends  *)
(*                                                                         *)
(* Encodings of the JavaScript values:                                     *)
(*   Uint8Array        a sequence of 0..255                                *)
(*   undefined (byte)  the integer -1 (an index past the end)              *)
(*   bigint            [neg |-> BOOLEAN, mag |-> base-256 digits, most     *)
(*                     significant first, no leading zero]                 *)
(*   SizeBytes | ...   the union-typed `size` of strings, arrays and maps  *)
(*                     is [width |-> w], [chunks |-> <<<<len, w>>, ...>>]  *)
(*                     or [null |-> TRUE]; the size of uint, nint, float   *)
(*                     and the width inside a chunk pair are plain numbers *)
(*   string (tstr)     a sequence of Unicode code points                   *)
(*   number (float)    [sign, exp, frac] of the IEEE-754 pattern, or NaN   *)
(***************************************************************************)
EXTENDS Integers, Sequences, FiniteSets, TLC

\* input    the buffer handed to the caller
\* stream   what is left of it: the slice the next call is given
\* decoded  the items returned so far, in order
\* status   "ready" before the first call, "more" after a call that left bytes,
\*          "done" after one that left none, "failed" after a call that threw,
\*          "hung" in a call that never returns
\* thrown   the value the failing call threw
\* source   what the input was built from (the items or chunks it encodes)
VARIABLES input, stream, decoded, status, thrown, source

vars == <<input, stream, decoded, status, thrown, source>>

(***************************************************************************)
(* JavaScript primitives the decoder uses                                  *)
(***************************************************************************)

\* stream[i] past the end of a Uint8Array
undefined == -1

\* stream[i]
at(s, i) == IF i < Len(s) THEN s[i + 1] ELSE undefined

\* stream.slice(begin): a copy of the suffix; empty when begin is past the end
slice(s, begin) == SubSeq(s, begin + 1, Len(s))

\* stream.slice(0, end)
slice2(s, end) == SubSeq(s, 1, IF end < Len(s) THEN end ELSE Len(s))

RECURSIVE BitAndNat(_, _)
BitAndNat(a, b) ==
  IF a = 0 \/ b = 0 THEN 0
  ELSE (a % 2) * (b % 2) + 2 * BitAndNat(a \div 2, b \div 2)

\* x & mask: ToInt32(undefined) is 0
BitAnd(x, mask) == IF x = undefined THEN 0 ELSE BitAndNat(x, mask)

RECURSIVE pow2(_)
\* Math.pow(2, n)
pow2(n) == IF n = 0 THEN 1 ELSE 2 * pow2(n - 1)

HexDigits ==
  <<"0", "1", "2", "3", "4", "5", "6", "7", "8", "9", "a", "b", "c", "d", "e", "f">>

RECURSIVE toString16(_)
\* n.toString(16): the hex digits, no leading zero
toString16(n) ==
  IF n < 16 THEN <<HexDigits[n + 1]>>
  ELSE toString16(n \div 16) \o <<HexDigits[(n % 16) + 1]>>

Ok(v, rest) == [t |-> "ok", v |-> v, rest |-> rest]
Throw(e) == [t |-> "throw", err |-> e]
\* a loop that never exits: the call neither returns nor throws
Loop == [t |-> "loop"]

(***************************************************************************)
(* bigint                                                                  *)
(***************************************************************************)

\* BigInt(n) for a byte n; BigInt(undefined) throws a TypeError
BigInt(n) ==
  IF n = undefined THEN Throw([name |-> "TypeError"])
  ELSE Ok([neg |-> FALSE, mag |-> IF n = 0 THEN <<>> ELSE <<n>>], <<>>)

\* x << 8 in a 32-bit register: the bits above the low 32 are lost
shl8Int32(x) ==
  LET m == IF x.mag = <<>> THEN <<>> ELSE Append(x.mag, 0)
      low == IF Len(m) > 4 THEN SubSeq(m, Len(m) - 3, Len(m)) ELSE m
  IN  [x EXCEPT !.mag = IF low # <<>> /\ low[1] = 0 THEN Tail(low) ELSE low]

\* x << 8n
shl8(x) == [x EXCEPT !.mag = IF x.mag = <<>> THEN <<>> ELSE Append(x.mag, 0)]

RECURSIVE StripZeros(_)
StripZeros(m) == IF m # <<>> /\ m[1] = 0 THEN StripZeros(Tail(m)) ELSE m

RECURSIVE AddMag(_, _, _)
\* digit-wise sum of two magnitudes, least significant digit first
AddMag(a, b, carry) ==
  IF a = <<>> /\ b = <<>> THEN (IF carry = 0 THEN <<>> ELSE <<carry>>)
  ELSE LET da == IF a = <<>> THEN 0 ELSE a[Len(a)]
           db == IF b = <<>> THEN 0 ELSE b[Len(b)]
           s == da + db + carry
           ra == IF a = <<>> THEN <<>> ELSE SubSeq(a, 1, Len(a) - 1)
           rb == IF b = <<>> THEN <<>> ELSE SubSeq(b, 1, Len(b) - 1)
       IN  Append(AddMag(ra, rb, s \div 256), s % 256)

\* x + y for non-negative x and y (x += BigInt(stream[i]))
plus(x, y) == [neg |-> FALSE, mag |-> StripZeros(AddMag(x.mag, y.mag, 0))]

\* -1n - x for a non-negative x (n.value is never negative): -(x + 1)
minusOneMinus(x) == [neg |-> TRUE, mag |-> StripZeros(AddMag(x.mag, <<1>>, 0))]

RECURSIVE MagToNat(_)
MagToNat(m) == IF m = <<>> THEN 0 ELSE 256 * MagToNat(SubSeq(m, 1, Len(m) - 1)) + m[Len(m)]

\* Number(x) for a non-negative x.  A value of 2^24 or more stands as 2^24: it is
\* used only as a slice end or a loop bound, past every stream of the model.
bigintToNum(x) == IF Len(x.mag) <= 3 THEN MagToNat(x.mag) ELSE pow2(24)

(***************************************************************************)
(* The decoder                                                             *)
(***************************************************************************)

\* the thrown message without the byte received
errorWithoutByte(expected, received) ==
  Throw([name |-> "Expected", expected |-> expected, received |-> <<>>])

\* error(expected, received): throw `Expected ${expected}. Received: ${hex}`
error(expected, received) ==
  Throw([name |-> "Expected", expected |-> expected, received |-> toString16(received)])

RECURSIVE readBigIntFrom(_, _, _, _)
\* the loop of readBigInt, from index i with accumulator x
readBigIntFrom(nBytes, s, i, x) ==
  IF i < nBytes
  THEN LET b == BigInt(at(s, i))
       IN  IF b.t # "ok" THEN b
           ELSE readBigIntFrom(nBytes, s, i + 1, plus(shl8(x), b.v))
  ELSE Ok(x, <<>>)

readBigInt(nBytes, s) == readBigIntFrom(nBytes, s, 0, BigInt(0).v)

_parseBigInt(schema, s) ==
  LET tag == at(s, 0)
      s1 == slice(s, 1)
      len == BitAnd(tag, 31)
  IN  IF ~(len >= 0 /\ len <= 27) THEN error(schema, tag)
      ELSE IF len < 24 THEN Ok([size |-> 0, value |-> BigInt(len).v], s1)
      ELSE LET nBytes == pow2(len - 24)
               x == readBigInt(nBytes, s1)
           IN  IF x.t # "ok" THEN x
               ELSE Ok([size |-> nBytes, value |-> x.v], slice(s1, nBytes))

_parseUInt(s) ==
  LET r == _parseBigInt("uint", s)
  IN  IF r.t # "ok" THEN r
      ELSE Ok([type |-> "uint", size |-> r.v.size, value |-> r.v.value], r.rest)

_parseNegInt(s) ==
  LET r == _parseBigInt("nint", s)
  IN  IF r.t # "ok" THEN r
      ELSE Ok([type |-> "nint", size |-> r.v.size, value |-> minusOneMinus(r.v.value)],
              r.rest)

RECURSIVE _mergeChunksReversed(_)
\* the chunks copied into the buffer last one first
_mergeChunksReversed(chunks) ==
  IF chunks = <<>> THEN <<>> ELSE _mergeChunksReversed(Tail(chunks)) \o Head(chunks)

RECURSIVE _mergeChunks(_)
\* the chunks copied one after the other into one buffer
_mergeChunks(chunks) ==
  IF chunks = <<>> THEN <<>> ELSE Head(chunks) \o _mergeChunks(Tail(chunks))

RECURSIVE __parseByteString(_, _)
RECURSIVE chunksWhile(_, _, _, _)
\* while (stream[0] != 0xff) { [chunk, stream] = __parseByteString(schema, stream); ... }
\* and the return that follows it.  The condition reads the stream alone, so an
\* iteration that leaves the stream as it was is followed by the same iteration
\* for ever.
chunksWhile(schema, s, chunks, sizes) ==
  IF at(s, 0) # 255
  THEN LET r == __parseByteString(schema, s)
       IN  IF r.t # "ok" THEN r
           ELSE IF r.rest = s THEN Loop
           ELSE chunksWhile(schema, r.rest, Append(chunks, r.v.value),
                  Append(sizes,
                    IF "chunks" \in DOMAIN r.v.size
                    THEN <<Len(r.v.value), 8>>
                    ELSE <<Len(r.v.value), r.v.size.width>>))
  ELSE Ok([type |-> "bstr", size |-> [chunks |-> sizes], value |-> _mergeChunks(chunks)], s)

__parseByteString(schema, s) ==
  LET tag == at(s, 0)
      len == BitAnd(tag, 31)
  IN  IF ~((len >= 0 /\ len <= 27) \/ len = 31) THEN error(schema, tag)
      ELSE IF len = 31 THEN chunksWhile(schema, slice(s, 1), <<>>, <<>>)
      ELSE LET n == _parseBigInt(schema, s)
           IN  IF n.t # "ok" THEN n
               ELSE LET n_ == bigintToNum(n.v.value)
                        buffer == slice2(n.rest, n_)
                    IN  Ok([type |-> "bstr", size |-> [width |-> n.v.size], value |-> buffer],
                           slice(n.rest, n_))

_parseByteString(s) == __parseByteString("bstr", s)

RECURSIVE utf8(_, _, _, _, _, _, _)
\* The UTF-8 decoder of the Encoding Standard over bytes[i..]: cp is the code point
\* under construction, seen/needed count its continuation bytes, lower..upper is
\* the range the next continuation byte must be in.  A malformed sequence yields
\* U+FFFD and decoding goes on (TextDecoder is not fatal by default).
utf8(bytes, i, cp, seen, needed, lower, upper) ==
  IF i > Len(bytes) THEN (IF needed # 0 THEN <<65533>> ELSE <<>>)
  ELSE LET b == bytes[i]
       IN  IF needed = 0
           THEN IF b <= 127 THEN <<b>> \o utf8(bytes, i + 1, 0, 0, 0, 128, 191)
                ELSE IF b >= 194 /\ b <= 223
                  THEN utf8(bytes, i + 1, b % 32, 0, 1, 128, 191)
                ELSE IF b >= 224 /\ b <= 239
                  THEN utf8(bytes, i + 1, b % 16, 0, 2,
                            IF b = 224 THEN 160 ELSE 128, IF b = 237 THEN 159 ELSE 191)
                ELSE IF b >= 240 /\ b <= 244
                  THEN utf8(bytes, i + 1, b % 8, 0, 3,
                            IF b = 240 THEN 144 ELSE 128, IF b = 244 THEN 143 ELSE 191)
                ELSE <<65533>> \o utf8(bytes, i + 1, 0, 0, 0, 128, 191)
           ELSE IF b < lower \/ b > upper
                THEN <<65533>> \o utf8(bytes, i, 0, 0, 0, 128, 191)
                ELSE IF seen + 1 = needed
                  THEN <<cp * 64 + (b % 64)>> \o utf8(bytes, i + 1, 0, 0, 0, 128, 191)
                  ELSE utf8(bytes, i + 1, cp * 64 + (b % 64), seen + 1, needed, 128, 191)

\* new TextDecoder().decode(bytes): UTF-8, a leading byte order mark dropped
TextDecoder_decode(bytes) ==
  LET s == utf8(bytes, 1, 0, 0, 0, 128, 191)
  IN  IF s # <<>> /\ s[1] = 65279 THEN Tail(s) ELSE s

_parseTextString(s) ==
  LET bytes == __parseByteString("tstr", s)
  IN  IF bytes.t # "ok" THEN bytes
      ELSE Ok([type |-> "tstr", size |-> bytes.v.size,
               value |-> TextDecoder_decode(bytes.v.value)], bytes.rest)

NaN == [nan |-> TRUE]

\* view.getFloat32(1, false): the number the 4 bytes after the header denote
getFloat32(view) ==
  LET e == (view[2] % 128) * 2 + (view[3] \div 128)
      f == <<view[3] % 128, view[4], view[5]>>
  IN  IF e = 255 /\ f # <<0, 0, 0>> THEN NaN
      ELSE [sign |-> view[2] \div 128, exp |-> e, frac |-> f]

\* view.getFloat64(1, false): the number the 8 bytes after the header denote
getFloat64(view) ==
  LET e == (view[2] % 128) * 16 + (view[3] \div 16)
      f == <<view[3] % 16>> \o SubSeq(view, 4, 9)
  IN  IF e = 2047 /\ f # <<0, 0, 0, 0, 0, 0, 0>> THEN NaN
      ELSE [sign |-> view[2] \div 128, exp |-> e, frac |-> f]

\* The DataView is over stream.buffer, which is the stream itself for a stream
\* that owns its buffer (every slice does); a read past its end throws a RangeError.
_parseFloat(s) ==
  LET view == s
  IN  CASE at(s, 0) = 249 -> Throw([name |-> "Half-precision floats are unsupported"])
        [] at(s, 0) = 250 ->
             IF Len(view) < 5 THEN Throw([name |-> "RangeError"])
             ELSE Ok([type |-> "float", size |-> 4, value |-> getFloat32(view)], slice(s, 5))
        [] at(s, 0) = 251 ->
             IF Len(view) < 9 THEN Throw([name |-> "RangeError"])
             ELSE Ok([type |-> "float", size |-> 8, value |-> getFloat64(view)], slice(s, 9))
        [] OTHER -> Throw([name |-> "Unreachable"])

RECURSIVE parse(_)
RECURSIVE arrayWhile(_, _)
\* while (stream[0] != 0xff) { [item, stream] = parse(stream); array.push(item); }
\* and the return that follows it, which hands back the stream the loop stopped
\* on.  As in chunksWhile, an iteration that leaves the stream as it was repeats
\* for ever.
arrayWhile(s, array) ==
  IF at(s, 0) # 255
  THEN LET r == parse(s)
       IN  IF r.t # "ok" THEN r
           ELSE IF r.rest = s THEN Loop
           ELSE arrayWhile(r.rest, Append(array, r.v))
  ELSE Ok([type |-> "array", size |-> [null |-> TRUE], value |-> array], s)

RECURSIVE arrayFor(_, _, _, _, _)
\* for (let i = 0; i < n_; i++) { [item, stream] = parse(stream); array.push(item); }
\* and the return that follows it
arrayFor(s, array, i, n_, size) ==
  IF i < n_
  THEN LET r == parse(s)
       IN  IF r.t # "ok" THEN r
           ELSE arrayFor(r.rest, Append(array, r.v), i + 1, n_, size)
  ELSE Ok([type |-> "array", size |-> [width |-> size], value |-> array], s)

_parseArray(s) ==
  LET tag == at(s, 0)
      len == BitAnd(tag, 31)
  IN  IF ~((len >= 0 /\ len <= 27) \/ len = 31) THEN error("array", tag)
      ELSE IF len = 31 THEN arrayWhile(slice(s, 1), <<>>)
      ELSE LET n == _parseBigInt("array", s)
           IN  IF n.t # "ok" THEN n
               ELSE arrayFor(n.rest, <<>>, 0, bigintToNum(n.v.value), n.v.size)

\* [key, stream] = parse(stream); [val, stream] = parse(stream): the pair and the
\* stream after it
parsePair(s) ==
  LET key == parse(s)
  IN  IF key.t # "ok" THEN key
      ELSE LET val == parse(key.rest)
           IN  IF val.t # "ok" THEN val
               ELSE Ok(<<key.v, val.v>>, val.rest)

RECURSIVE mapWhile(_, _)
\* while (stream[0] != 0xff) { key, val, map.push([key, val]) } and the return
mapWhile(s, map) ==
  IF at(s, 0) # 255
  THEN LET r == parsePair(s)
       IN  IF r.t # "ok" THEN r
           ELSE IF r.rest = s THEN Loop
           ELSE mapWhile(r.rest, Append(map, r.v))
  ELSE Ok([type |-> "map", size |-> [null |-> TRUE], value |-> map], s)

RECURSIVE mapFor(_, _, _, _, _)
\* for (let i = 0; i < n_; i++) { key, val, map.push([key, val]) } and the return
mapFor(s, map, i, n_, size) ==
  IF i < n_
  THEN LET r == parsePair(s)
       IN  IF r.t # "ok" THEN r
           ELSE mapFor(r.rest, Append(map, r.v), i + 1, n_, size)
  ELSE Ok([type |-> "map", size |-> [width |-> size], value |-> map], s)

_parseMap(s) ==
  LET tag == at(s, 0)
      len == BitAnd(tag, 31)
  IN  IF ~((len >= 0 /\ len <= 27) \/ len = 31) THEN error("map", tag)
      ELSE IF len = 31 THEN mapWhile(slice(s, 1), <<>>)
      ELSE LET n == _parseBigInt("map", s)
           IN  IF n.t # "ok" THEN n
               ELSE mapFor(n.rest, <<>>, 0, bigintToNum(n.v.value), n.v.size)

_parseTagged(s) ==
  LET tag == at(s, 0)
      tagValue == BitAnd(tag, 31)
      inner == parse(slice(s, 1))
  IN  IF inner.t # "ok" THEN inner
      ELSE Ok([type |-> "tagged", tag |-> tagValue, value |-> inner.v], inner.rest)

parse(s) ==
  LET hi == BitAnd(at(s, 0), 240)
      lo == BitAnd(at(s, 0), 15)
  IN  CASE hi \in {0, 16} -> _parseUInt(s)
        [] hi \in {32, 48} -> _parseNegInt(s)
        [] hi \in {64, 80} -> _parseByteString(s)
        [] hi \in {96, 112} -> _parseTextString(s)
        [] hi \in {128, 144} -> _parseArray(s)
        [] hi \in {160, 176} -> _parseMap(s)
        [] hi \in {192, 208} -> _parseTagged(s)
        [] hi = 240 /\ lo = 4 -> Ok([type |-> "boolean", value |-> FALSE], slice(s, 1))
        [] hi = 240 /\ lo = 5 -> Ok([type |-> "boolean", value |-> TRUE], slice(s, 1))
        [] hi = 240 /\ lo = 6 -> Ok([type |-> "null"], slice(s, 1))
        [] hi = 240 /\ lo = 7 -> Ok([type |-> "undefined"], slice(s, 1))
        [] hi = 240 /\ lo \in {9, 10, 11} -> _parseFloat(s)
        [] OTHER -> Throw([name |-> "Unknown type byte", received |-> toString16(at(s, 0))])

(***************************************************************************)
(* The caller: decode the items of a buffer one after the other, feeding   *)
(* back the remaining slice until the buffer is exhausted                  *)
(***************************************************************************)

NoError == [name |-> "none"]

\* [item, stream] = parse(stream) returns
Decode ==
  /\ status \in {"ready", "more"}
  /\ parse(stream).t = "ok"
  /\ decoded' = Append(decoded, parse(stream).v)
  /\ stream' = parse(stream).rest
  /\ status' = IF parse(stream).rest = <<>> THEN "done" ELSE "more"
  /\ UNCHANGED <<input, thrown, source>>

\* parse(stream) throws
Fail ==
  /\ status \in {"ready", "more"}
  /\ parse(stream).t = "throw"
  /\ status' = "failed"
  /\ thrown' = parse(stream).err
  /\ UNCHANGED <<input, stream, decoded, source>>

\* parse(stream) never returns
Hang ==
  /\ status \in {"ready", "more"}
  /\ parse(stream).t = "loop"
  /\ status' = "hung"
  /\ UNCHANGED <<input, stream, decoded, thrown, source>>

\* the schema _parseByteString and _parseTextString pass for a header byte
schemaOf(b) == IF BitAnd(b, 240) \in {64, 80} THEN "bstr" ELSE "tstr"

\* [bytes, stream] = __parseByteString(schema, stream) returns: the call parse
\* makes, through _parseByteString or _parseTextString, for a string header
ReadString ==
  /\ status = "ready"
  /\ BitAnd(at(stream, 0), 240) \in {64, 80, 96, 112}
  /\ __parseByteString(schemaOf(at(stream, 0)), stream).t = "ok"
  /\ decoded' = Append(decoded, __parseByteString(schemaOf(at(stream, 0)), stream).v)
  /\ stream' = __parseByteString(schemaOf(at(stream, 0)), stream).rest
  /\ status' = "read"
  /\ UNCHANGED <<input, thrown, source>>

RECURSIVE SeqsUpTo(_, _)
\* the sequences over S of length at most n
SeqsUpTo(S, n) ==
  IF n = 0 THEN {<<>>}
  ELSE LET shorter == SeqsUpTo(S, n - 1)
       IN  shorter \cup {Append(q, x) : q \in {p \in shorter : Len(p) = n - 1}, x \in S}

RECURSIVE Concat(_)
Concat(ss) == IF ss = <<>> THEN <<>> ELSE Head(ss) \o Concat(Tail(ss))

(***************************************************************************)
(* Spec: one buffer of arbitrary bytes                                     *)
(***************************************************************************)

MaxLen == 4

\* uint 0, the 1-byte uint header, bstr and tstr of length 1, the indefinite bstr, tstr, array and
\* map headers, array and map of count 1, tag 3, the break byte
Bytes == {0, 24, 65, 95, 97, 127, 129, 159, 161, 191, 195, 255}

Init ==
  /\ input \in SeqsUpTo(Bytes, MaxLen)
  /\ stream = input
  /\ decoded = <<>>
  /\ status = "ready"
  /\ thrown = NoError
  /\ source = <<>>

Next == Decode \/ Fail \/ Hang

Spec == Init /\ [][Next]_vars

(***************************************************************************)
(* SpecInt: an integer header followed by payload bytes                     *)
(***************************************************************************)

MaxPayload == 9

\* every header byte of major type 0 or 1; a header that announces value bytes is
\* followed by up to MaxPayload bytes, any other by at most one
IntHeads == 0..63

InitInt ==
  /\ \E h \in IntHeads :
       \E p \in SeqsUpTo({0, 255}, IF h % 32 \in 24..27 THEN MaxPayload ELSE 1) :
         input = <<h>> \o p
  /\ stream = input
  /\ decoded = <<>>
  /\ status = "ready"
  /\ thrown = NoError
  /\ source = <<>>

NextInt == Decode \/ Fail

SpecInt == InitInt /\ [][NextInt]_vars

\* the additional information and the major type of a header byte
Info(b) == b % 32
Major(b) == b \div 32

\* the width a header byte announces: 1, 2, 4 or 8 for 0x18..0x1b, else 0
WidthOf(b) ==
  CASE Info(b) = 24 -> 1 [] Info(b) = 25 -> 2 [] Info(b) = 26 -> 4 [] Info(b) = 27 -> 8
    [] OTHER -> 0

\* the digits of a big-endian field from its first non-zero byte on
Canon(bytes) ==
  IF \A i \in 1..Len(bytes) : bytes[i] = 0 THEN <<>>
  ELSE LET first == CHOOSE i \in 1..Len(bytes) :
                      bytes[i] # 0 /\ \A j \in 1..(i - 1) : bytes[j] = 0
       IN  SubSeq(bytes, first, Len(bytes))

\* b is a + 1, for digit strings without leading zeros: the trailing 255s of a
\* become 0 and the digit before them grows by one (or a new leading 1 appears)
IsSucc(a, b) ==
  LET k == Cardinality({i \in 1..Len(a) : \A j \in i..Len(a) : a[j] = 255})
      p == Len(a) - k
  IN  IF p = 0
      THEN b = <<1>> \o [i \in 1..k |-> 0]
      ELSE /\ Len(b) = Len(a)
           /\ \A i \in 1..(p - 1) : b[i] = a[i]
           /\ b[p] = a[p] + 1
           /\ \A i \in (p + 1)..Len(a) : b[i] = 0

\* the first call's header is an integer header with a legal additional
\* information and all the bytes of its value after it
IntComplete ==
  /\ input # <<>>
  /\ Major(input[1]) \in {0, 1}
  /\ Info(input[1]) <= 27
  /\ Len(input) >= 1 + WidthOf(input[1])

\* the raw magnitude the first header and its value bytes encode
RawMag ==
  IF Info(input[1]) <= 23 THEN Canon(<<Info(input[1])>>)
  ELSE Canon(SubSeq(input, 2, 1 + WidthOf(input[1])))

\* C5: an integer header followed by enough bytes decodes to size 0 and value a
\* (a <= 0x17, 1 byte consumed), or to size w = 2^(a - 0x18) and the big-endian
\* value of the next w bytes, whatever their number of leading zeros and up to
\* 2^64 - 1 (1 + w bytes consumed); a nint has value -1 - m for the raw magnitude m.
C5_IntegerDecoding ==
  (IntComplete /\ status # "ready") =>
    /\ decoded # <<>>
    /\ decoded[1].type = (IF Major(input[1]) = 0 THEN "uint" ELSE "nint")
    /\ decoded[1].size = WidthOf(input[1])
    /\ Major(input[1]) = 0 => decoded[1].value = [neg |-> FALSE, mag |-> RawMag]
    /\ Major(input[1]) = 1 =>
         /\ decoded[1].value.neg
         /\ IsSucc(RawMag, decoded[1].value.mag)
    /\ Len(decoded) = 1 => stream = SubSeq(input, 2 + WidthOf(input[1]), Len(input))

\* an 8-byte value of 2^64 - 1 has been decoded, as a uint or a nint, from a
\* stream that goes on after it
C5_Witness ==
  /\ Len(decoded) = 1
  /\ Len(input) > 9
  /\ Info(input[1]) = 27
  /\ SubSeq(input, 2, 9) = <<255, 255, 255, 255, 255, 255, 255, 255>>

(***************************************************************************)
(* SpecHead: any header byte followed by a short tail                      *)
(***************************************************************************)

MaxTail == 2

\* inputs that declare a definite array or map of more elements are left out
MaxCount == 4

\* the count a definite array or map header declares, 0 for any other input
DeclaredCount(i) ==
  IF /\ i # <<>>
     /\ Major(i[1]) \in {4, 5}
     /\ Info(i[1]) \in 24..27
     /\ Len(i) >= 1 + WidthOf(i[1])
  THEN bigintToNum([neg |-> FALSE, mag |-> Canon(SubSeq(i, 2, 1 + WidthOf(i[1])))])
  ELSE 0

InitHead ==
  /\ \E b \in 0..255, t \in SeqsUpTo({0, 1, 255}, MaxTail) : input = <<b>> \o t
  /\ DeclaredCount(input) <= MaxCount
  /\ stream = input
  /\ decoded = <<>>
  /\ status = "ready"
  /\ thrown = NoError
  /\ source = <<>>

NextHead == Decode \/ Fail \/ Hang

SpecHead == InitHead /\ [][NextHead]_vars

KindName(major) ==
  CASE major = 0 -> "uint" [] major = 1 -> "nint" [] major = 2 -> "bstr"
    [] major = 3 -> "tstr" [] major = 4 -> "array" [] major = 5 -> "map"

\* the two hex digits of a byte of 0x10 or more
Hex2(b) == <<HexDigits[(b \div 16) + 1], HexDigits[(b % 16) + 1]>>

\* the first call threw e and returned no item
FirstCallThrew(e) == status = "failed" /\ decoded = <<>> /\ thrown = e

MalformedInfo(b) ==
  \/ Major(b) \in 0..5 /\ Info(b) \in 28..30
  \/ Major(b) \in {0, 1} /\ Info(b) = 31

UnknownType(b) ==
  \/ b \div 16 = 14
  \/ b \div 16 = 15 /\ (b % 16) \notin {4, 5, 6, 7, 9, 10, 11}

\* C8: the fatal header errors depend on the first byte b alone: "Expected <kind>.
\* Received: <b>" for additional information 0x1c..0x1e under uint, nint, bstr,
\* tstr, array, map and 0x1f under uint, nint; "Unknown type byte: <b>" for high
\* nibble 0xe and for 0xf0..0xff with a low nibble other than 4, 5, 6, 7, 9, a, b;
\* the "unsupported" error for 0xf9; and a tagged header fails only as the item
\* after it fails.
C8_FatalHeaders ==
  status # "ready" =>
    LET b == input[1]
    IN  /\ MalformedInfo(b) =>
             FirstCallThrew([name |-> "Expected", expected |-> KindName(Major(b)),
                             received |-> Hex2(b)])
        /\ UnknownType(b) =>
             FirstCallThrew([name |-> "Unknown type byte", received |-> Hex2(b)])
        /\ b = 249 =>
             FirstCallThrew([name |-> "Half-precision floats are unsupported"])
        /\ (Major(b) = 6 /\ decoded = <<>>) =>
             /\ status = "failed" => /\ parse(Tail(input)).t = "throw"
                                     /\ thrown = parse(Tail(input)).err
             /\ status = "hung" => parse(Tail(input)).t = "loop"
        /\ (Major(b) = 6 /\ parse(Tail(input)).t = "ok") =>
             /\ decoded # <<>>
             /\ decoded[1].type = "tagged"
             /\ decoded[1].tag = Info(b)

\* the call on a map header with additional information 0x1d and two more bytes
\* after it has thrown
C8_Witness ==
  /\ status = "failed"
  /\ decoded = <<>>
  /\ Len(input) = 3
  /\ input[1] = 189

(***************************************************************************)
(* SpecChunks: an indefinite-length string built from a list of chunks     *)
(***************************************************************************)

MaxChunks == 3

\* the header of major type `major` for the count n < 256 in a field of width w
Header(major, w, n) ==
  IF w = 0 THEN <<major * 32 + n>>
  ELSE <<major * 32 + (CASE w = 1 -> 24 [] w = 2 -> 25 [] w = 4 -> 26 [] w = 8 -> 27)>>
       \o [i \in 1..(w - 1) |-> 0] \o <<n>>

\* a chunk: its bytes, the width of its length field, and whether it is wrapped
\* in an indefinite-length string of its own
Chunk(bytes, width, nested) == [bytes |-> bytes, width |-> width, nested |-> nested]

ChunkSet ==
  { Chunk(<<>>, 0, FALSE), Chunk(<<65>>, 0, FALSE), Chunk(<<255>>, 1, FALSE),
    Chunk(<<65, 66>>, 2, FALSE), Chunk(<<195, 159>>, 4, FALSE),
    Chunk(<<66>>, 8, FALSE), Chunk(<<67>>, 0, TRUE) }

EncodeChunk(major, c) ==
  IF c.nested
  THEN <<major * 32 + 31>> \o Header(major, c.width, Len(c.bytes)) \o c.bytes \o <<255>>
  ELSE Header(major, c.width, Len(c.bytes)) \o c.bytes

InitChunks ==
  /\ source \in SeqsUpTo(ChunkSet, MaxChunks)
  /\ \E major \in {2, 3} :
       input = <<major * 32 + 31>>
                 \o Concat([i \in 1..Len(source) |-> EncodeChunk(major, source[i])])
                 \o <<255>>
  /\ stream = input
  /\ decoded = <<>>
  /\ status = "ready"
  /\ thrown = NoError

NextChunks == ReadString

SpecChunks == InitChunks /\ [][NextChunks]_vars

RECURSIVE SumLengths(_)
SumLengths(sizes) == IF sizes = <<>> THEN 0 ELSE Head(sizes)[1] + SumLengths(Tail(sizes))

AllDefinite == \A i \in 1..Len(source) : ~source[i].nested

\* C6: an indefinite-length string of definite chunks c1..ck and the break byte
\* decodes to the buffer c1 ++ ... ++ ck with one size entry (length of ci, width
\* of ci's length field) per chunk, in order; and the buffer of every decoded
\* indefinite-length string is as long as its recorded chunk lengths add up to.
C6_ChunksMerged ==
  status = "read" =>
    /\ decoded[1].type = "bstr"
    /\ "chunks" \in DOMAIN decoded[1].size
    /\ Len(decoded[1].value) = SumLengths(decoded[1].size.chunks)
    /\ AllDefinite =>
         /\ decoded[1].value = Concat([i \in 1..Len(source) |-> source[i].bytes])
         /\ decoded[1].size.chunks =
              [i \in 1..Len(source) |-> <<Len(source[i].bytes), source[i].width>>]

\* three definite chunks, the first of two bytes behind a 2-byte length field and
\* the last one holding the byte 0xff, have been merged
C6_Witness ==
  /\ status = "read"
  /\ Len(source) = 3
  /\ AllDefinite
  /\ source[1].width = 2
  /\ source[3].bytes = <<255>>
  /\ Len(decoded[1].value) >= 3

\* C9: a chunk that is itself an indefinite-length string is spliced in at its
\* place as one chunk recorded as (length of its buffer, 8), and the chunks before
\* and after it are merged as usual.
C9_NestedFlattened ==
  (status = "read" /\ ~AllDefinite) =>
    /\ decoded[1].value = Concat([i \in 1..Len(source) |-> source[i].bytes])
    /\ decoded[1].size =
         [chunks |-> [i \in 1..Len(source) |->
            <<Len(source[i].bytes), IF source[i].nested THEN 8 ELSE source[i].width>>]]

(***************************************************************************)
(* Claims about one buffer of arbitrary bytes (Spec)                       *)
(***************************************************************************)

\* the number a complete length or count field of the first header holds
FieldValue(i) ==
  IF Info(i[1]) <= 23 THEN Info(i[1])
  ELSE bigintToNum([neg |-> FALSE, mag |-> Canon(SubSeq(i, 2, 1 + WidthOf(i[1])))])

\* the bytes after the first header and its field
AfterField(i) == Len(i) - 1 - WidthOf(i[1])

\* the input ends before its first item is complete: it is empty, its value or
\* length field is cut short, its definite string is longer than what is left,
\* its definite array or map declares more items than there are bytes left, or
\* it is a tag header and nothing else
Truncated(i) ==
  \/ i = <<>>
  \/ /\ i # <<>>
     /\ \/ Major(i[1]) \in 0..5 /\ Info(i[1]) \in 24..27 /\ AfterField(i) < 0
        \/ /\ Major(i[1]) \in 2..5
           /\ Info(i[1]) <= 27
           /\ AfterField(i) >= 0
           /\ FieldValue(i) * (IF Major(i[1]) = 5 THEN 2 ELSE 1) > AfterField(i)
        \/ Major(i[1]) = 6 /\ Len(i) = 1

\* C3: when the input ends before the item being decoded is complete, parse fails
\* with an error and returns no item.
C3_TruncatedInputFails ==
  Truncated(input) => (decoded = <<>> /\ status \in {"ready", "failed"})

\* C4: a call to parse on a finite input terminates: it returns or it throws.
C4_ParseTerminates == status # "hung"

RECURSIVE AcceptedChunkHeads(_, _)
\* the header bytes of the elements the chunk loop of an indefinite-length string
\* takes as chunks, from the stream after the string's own header
AcceptedChunkHeads(schema, s) ==
  IF s = <<>> \/ s[1] = 255 THEN <<>>
  ELSE LET r == __parseByteString(schema, s)
       IN  IF r.t = "ok" THEN <<s[1]>> \o AcceptedChunkHeads(schema, r.rest) ELSE <<>>

\* C10: every element an indefinite-length byte (text) string accepts as a chunk
\* has a byte-string (text-string) header.
C10_ChunksHaveStringType ==
  (input # <<>> /\ input[1] \in {95, 127} /\ decoded # <<>>) =>
    LET heads == AcceptedChunkHeads(schemaOf(input[1]), Tail(input))
    IN  \A k \in 1..Len(heads) : Major(heads[k]) = Major(input[1])

(***************************************************************************)
(* SpecItems: a buffer that is the concatenation of well-formed items      *)
(***************************************************************************)

MaxItems == 2

\* an item and its encoding
Enc(item, enc) == [item |-> item, enc |-> enc]

Small(n) == [neg |-> FALSE, mag |-> IF n = 0 THEN <<>> ELSE <<n>>]

GenUInt(w, n) == Enc([type |-> "uint", size |-> w, value |-> Small(n)], Header(0, w, n))

GenNInt(w, n) ==
  Enc([type |-> "nint", size |-> w, value |-> [neg |-> TRUE, mag |-> <<n + 1>>]],
      Header(1, w, n))

GenBstr(w, bytes) ==
  Enc([type |-> "bstr", size |-> [width |-> w], value |-> bytes],
      Header(2, w, Len(bytes)) \o bytes)

\* an indefinite-length string of major type `major` whose chunks are definite
GenChunked(major, type, chunks, value) ==
  Enc([type |-> type,
       size |-> [chunks |-> [i \in 1..Len(chunks) |-> <<Len(chunks[i].bytes), chunks[i].width>>]],
       value |-> value],
      <<major * 32 + 31>> \o Concat([i \in 1..Len(chunks) |-> EncodeChunk(major, chunks[i])])
        \o <<255>>)

\* a text string: its UTF-8 bytes and its code points
GenTstr(w, bytes, text) ==
  Enc([type |-> "tstr", size |-> [width |-> w], value |-> text],
      Header(3, w, Len(bytes)) \o bytes)

GenArray(w, elems) ==
  Enc([type |-> "array", size |-> [width |-> w],
       value |-> [i \in 1..Len(elems) |-> elems[i].item]],
      Header(4, w, Len(elems)) \o Concat([i \in 1..Len(elems) |-> elems[i].enc]))

GenArrayIndef(elems) ==
  Enc([type |-> "array", size |-> [null |-> TRUE],
       value |-> [i \in 1..Len(elems) |-> elems[i].item]],
      <<159>> \o Concat([i \in 1..Len(elems) |-> elems[i].enc]) \o <<255>>)

\* pairs is a sequence of <<key, value>>
GenMap(w, pairs) ==
  Enc([type |-> "map", size |-> [width |-> w],
       value |-> [i \in 1..Len(pairs) |-> <<pairs[i][1].item, pairs[i][2].item>>]],
      Header(5, w, Len(pairs))
        \o Concat([i \in 1..Len(pairs) |-> pairs[i][1].enc \o pairs[i][2].enc]))

GenMapIndef(pairs) ==
  Enc([type |-> "map", size |-> [null |-> TRUE],
       value |-> [i \in 1..Len(pairs) |-> <<pairs[i][1].item, pairs[i][2].item>>]],
      <<191>> \o Concat([i \in 1..Len(pairs) |-> pairs[i][1].enc \o pairs[i][2].enc])
        \o <<255>>)

GenTagged(tag, e) ==
  Enc([type |-> "tagged", tag |-> tag, value |-> e.item], <<192 + tag>> \o e.enc)

\* the items without items inside
Scalars ==
  << GenUInt(0, 0),
     GenUInt(1, 24),
     GenUInt(2, 1),
     GenUInt(8, 255),
     GenNInt(0, 0),
     GenNInt(1, 254),
     GenBstr(0, <<255>>),
     GenBstr(1, <<>>),
     GenChunked(2, "bstr", <<Chunk(<<1>>, 0, FALSE), Chunk(<<255, 2>>, 1, FALSE)>>,
                <<1, 255, 2>>),
     GenTstr(0, <<97>>, <<97>>),
     GenTstr(1, <<195, 159>>, <<223>>),
     GenChunked(3, "tstr", <<Chunk(<<97>>, 0, FALSE)>>, <<97>>),
     Enc([type |-> "float", size |-> 4,
          value |-> [sign |-> 0, exp |-> 127, frac |-> <<0, 0, 0>>]], <<250, 63, 128, 0, 0>>),
     Enc([type |-> "float", size |-> 8,
          value |-> [sign |-> 1, exp |-> 1024, frac |-> <<0, 0, 0, 0, 0, 0, 1>>]],
         <<251, 192, 0, 0, 0, 0, 0, 0, 1>>),
     Enc([type |-> "boolean", value |-> FALSE], <<244>>),
     Enc([type |-> "boolean", value |-> TRUE], <<245>>),
     Enc([type |-> "null"], <<246>>),
     Enc([type |-> "undefined"], <<247>>) >>

\* the items put inside arrays, maps and tags
Elems ==
  << GenUInt(0, 0),
     GenBstr(0, <<255>>),
     GenArrayIndef(<<>>),
     GenArrayIndef(<<GenUInt(0, 1)>>),
     GenArray(0, <<GenUInt(0, 1)>>),
     GenMapIndef(<<>>) >>

\* A plan names one item by numbers: <<0, i>> the scalar i; <<1, d, i, j>> the
\* array and <<2, d, i, j>> the map of the elements i and j (0: none; a map takes
\* element i as the key of both pairs, so its keys are equal), definite with a
\* count of width 0 (d = 0) or 1 (d = 1) or indefinite (d = 2); <<3, i>> tag 3
\* around the element i.
Plans ==
  {<<0, i>> : i \in 1..Len(Scalars)}
    \cup {p \in {<<k, d, i, j>> : k \in {1, 2}, d \in 0..2,
                                   i \in 0..Len(Elems), j \in 0..Len(Elems)} :
             (p[3] = 0 => p[4] = 0) /\ (p[1] = 2 => p[2] # 1)}
    \cup {<<3, i>> : i \in 1..Len(Elems)}

\* the elements a plan's i and j name
Picked(i, j) ==
  (IF i = 0 THEN <<>> ELSE <<Elems[i]>>) \o (IF j = 0 THEN <<>> ELSE <<Elems[j]>>)

PickedPairs(i, j) ==
  IF i = 0 THEN <<>>
  ELSE <<<<Elems[i], Elems[i]>>>> \o (IF j = 0 THEN <<>> ELSE <<<<Elems[i], Elems[j]>>>>)

Build(p) ==
  CASE p[1] = 0 -> Scalars[p[2]]
    [] p[1] = 1 /\ p[2] = 2 -> GenArrayIndef(Picked(p[3], p[4]))
    [] p[1] = 1 /\ p[2] < 2 -> GenArray(p[2], Picked(p[3], p[4]))
    [] p[1] = 2 /\ p[2] = 2 -> GenMapIndef(PickedPairs(p[3], p[4]))
    [] p[1] = 2 /\ p[2] < 2 -> GenMap(p[2], PickedPairs(p[3], p[4]))
    [] p[1] = 3 -> GenTagged(3, Elems[p[2]])

InitItems ==
  /\ \E ps \in SeqsUpTo(Plans, MaxItems) : source = [i \in 1..Len(ps) |-> Build(ps[i])]
  /\ input = Concat([i \in 1..Len(source) |-> source[i].enc])
  /\ stream = input
  /\ decoded = <<>>
  /\ status = IF input = <<>> THEN "done" ELSE "ready"
  /\ thrown = NoError

NextItems == Decode \/ Fail

SpecItems == InitItems /\ [][NextItems]_vars

RECURSIVE SameItem(_, _)
\* a and b are the same item: the same variant with the same fields
SameItem(a, b) ==
  /\ a.type = b.type
  /\ CASE a.type \in {"uint", "nint", "bstr", "tstr", "float"} ->
            a.size = b.size /\ a.value = b.value
       [] a.type = "boolean" -> a.value = b.value
       [] a.type \in {"null", "undefined"} -> TRUE
       [] a.type = "tagged" -> a.tag = b.tag /\ SameItem(a.value, b.value)
       [] a.type = "array" ->
            /\ a.size = b.size
            /\ Len(a.value) = Len(b.value)
            /\ \A i \in 1..Len(a.value) : SameItem(a.value[i], b.value[i])
       [] a.type = "map" ->
            /\ a.size = b.size
            /\ Len(a.value) = Len(b.value)
            /\ \A i \in 1..Len(a.value) :
                 /\ SameItem(a.value[i][1], b.value[i][1])
                 /\ SameItem(a.value[i][2], b.value[i][2])

\* the encodings of the source items from item n + 1 on
EncodingAfter(n) == Concat([i \in 1..(Len(source) - n) |-> source[n + i].enc])

\* C1: on the concatenation of k well-formed items, calling parse again and again
\* on the returned remainder yields exactly those k items in order and ends with
\* an empty remainder; after each call the remainder is what follows the last
\* byte of the decoded item's encoding.
C1_StreamDecodes ==
  /\ status \notin {"failed", "hung"}
  /\ Len(decoded) <= Len(source)
  /\ \A i \in 1..Len(decoded) : i <= Len(source) => SameItem(decoded[i], source[i].item)
  /\ Len(decoded) <= Len(source) => stream = EncodingAfter(Len(decoded))
  /\ status = "done" => Len(decoded) = Len(source)

FirstIs(type, indefinite) ==
  /\ source # <<>>
  /\ source[1].item.type = type
  /\ ("null" \in DOMAIN source[1].item.size) = indefinite

\* the first call returned the first source item and left what follows its encoding
FirstDecoded ==
  /\ status \notin {"failed", "hung"} \/ decoded # <<>>
  /\ decoded # <<>> =>
       /\ SameItem(decoded[1], source[1].item)
       /\ Len(decoded) = 1 => stream = EncodingAfter(1)

\* C2: an indefinite-length array or map decodes to size null, the items before
\* its own break marker in stream order (a nested container's break closes that
\* container alone) and a remainder that begins after the break marker; 0x9f 0xff
\* is the empty array and takes exactly 2 bytes.
C2_IndefiniteContainers ==
  ((FirstIs("array", TRUE) \/ FirstIs("map", TRUE)) /\ status # "ready") =>
    /\ FirstDecoded
    /\ decoded # <<>> => decoded[1].size = [null |-> TRUE]
    /\ (SubSeq(input, 1, 2) = <<159, 255>> /\ Len(decoded) = 1) =>
         /\ decoded[1].value = <<>>
         /\ Len(input) - Len(stream) = 2

\* C7: a definite-length array (map) of count n followed by n (2n) well-formed
\* items of any variant decodes to those n items (pairs) in stream order, equal
\* keys kept, with the width of the count as size and a remainder that begins
\* after the last item.
C7_DefiniteContainers ==
  ((FirstIs("array", FALSE) \/ FirstIs("map", FALSE)) /\ status # "ready") =>
    /\ FirstDecoded
    /\ decoded # <<>> => decoded[1].size = [width |-> WidthOf(input[1])]

====
